---- MODULE Spec2Model ----
(***************************************************************************)
(* The client-side data-fetching layer of the dashboard: NetworkService    *)
(* (src/app/utils/fallbackData.ts, lines 149-413): request cache with ttl  *)
(* and capacity eviction, in-flight request de-duplication, retry loop     *)
(* with exponential backoff, per-URL metrics history.                      *)
(* On top of it the React hook useDataFetch (src/app/utils/useDataFetch.ts, *)
(* lines 23-148), specified by HookSpec.                                   *)
(*                                                                         *)
(* Specifications: Spec (the service and its callers), DedupSpec (callers  *)
(* whose options differ for one url), BackoffSpec (one request with a      *)
(* retry budget of up to three), CapSpec (a metrics history at its cap),   *)
(* HookSpec (the hook) and RaceSpec (the hook with two urls in flight).    *)
(*                                                                         *)
(* Execution model: one JavaScript event loop.  A synchronous section of   *)
(* the code is one action.  Suspension points (await fetch, await          *)
(* response.json(), await delay, await of the shared promise) separate the *)
(* actions.  Continuations of a settled promise are queued in `microtasks` *)
(* in registration order and run before any timer or network event.        *)
(* Times are milliseconds.                                                 *)
(***************************************************************************)
EXTENDS Integers, Sequences, FiniteSets, TLC

\* ---------------------------------------------------------------- bounds
MaxCalls == 2          \* total number of networkService.fetch calls
MaxRetry == 1          \* largest `retry` option a caller passes
MaxBusyKeys == 1       \* number of distinct keys the callers have requests in flight for
MaxTicks == 2          \* number of times the clock advances (by a minute)

\* ------------------------------------------------------ program constants
maxCacheSize == 50
defaultTimeout == 10000
defaultRetry == 3
defaultTtl == 300000
defaultRetryDelay == 1000
cleanupInterval == 60000
metricsCap == 100

\* ------------------------------------------------------------ input sets
Callers == {1, 2}
Urls == {1}                            \* resource paths, numbered
RetryChoices == {0, MaxRetry}
\* the clock is read at whole minutes
TickSteps == {cleanupInterval}
Statuses == {200, 404, 500}
\* response bodies as text: "7" is valid JSON, "<" is not
Bodies == {<<"7">>, <<"<">>}
\* response.headers.get('etag') || undefined: "" when the server sends none
Etags == {""}
\* how many entries the cache holds when the model starts: none, or maxCacheSize
FillChoices == {FALSE, TRUE}

\* ------------------------------------------------------------ text helpers
DigitChars == <<"0", "1", "2", "3", "4", "5", "6", "7", "8", "9">>

RECURSIVE Digits(_)
\* decimal text of a natural number, as `${n}` and JSON.stringify(n) give it
Digits(n) ==
    IF n < 10 THEN <<DigitChars[n + 1]>>
    ELSE Digits(n \div 10) \o <<DigitChars[(n % 10) + 1]>>

IsDigit(ch) == \E i \in 1..10 : DigitChars[i] = ch
DigitValue(ch) == (CHOOSE i \in 1..10 : DigitChars[i] = ch) - 1

RECURSIVE NumberOf(_)
NumberOf(text) ==
    IF Len(text) = 0 THEN 0
    ELSE 10 * NumberOf(SubSeq(text, 1, Len(text) - 1)) + DigitValue(text[Len(text)])

\* String.prototype.includes
Includes(text, pat) ==
    \E i \in 1..(Len(text) - Len(pat) + 1) : SubSeq(text, i, i + Len(pat) - 1) = pat

\* variant of Pow2: the delay grows by one retryDelay per retry
Pow2Linear(k) == IF k <= 0 THEN 1 ELSE k + 1

\* Math.pow(2, attempt) of line 279
RECURSIVE Pow2(_)
Pow2(k) == IF k <= 0 THEN 1 ELSE 2 * Pow2(k - 1)

\* response.statusText: the standard reason phrase of the status
StatusText(status) ==
    IF status = 404 THEN <<"N", "o", "t", " ", "F", "o", "u", "n", "d">>
    ELSE IF status = 500
         THEN <<"I", "n", "t", "e", "r", "n", "a", "l", " ", "S", "e", "r", "v", "e", "r",
                " ", "E", "r", "r", "o", "r">>
         ELSE <<"O", "K">>

\* ------------------------------------------------------------------ errors
NoError == [name |-> "", message |-> <<>>]

\* line 244: new Error(`HTTP ${response.status}: ${response.statusText}`)
HttpError(status) ==
    [name |-> "Error",
     message |-> <<"H", "T", "T", "P", " ">> \o Digits(status) \o <<":", " ">>
                 \o StatusText(status)]

\* line 230: new Error('Request aborted')
RequestAborted ==
    [name |-> "Error",
     message |-> <<"R", "e", "q", "u", "e", "s", "t", " ", "a", "b", "o", "r", "t", "e", "d">>]

\* fetch() rejects with a DOMException named AbortError once controller.abort() ran (line 226)
TimeoutAbort ==
    [name |-> "AbortError",
     message |-> <<"T", "h", "e", " ", "o", "p", "e", "r", "a", "t", "i", "o", "n", " ",
                 "w", "a", "s", " ", "a", "b", "o", "r", "t", "e", "d", ".">>]

\* fetch() or the body read rejects with a TypeError on a network failure
NetworkFailure ==
    [name |-> "TypeError",
     message |-> <<"F", "a", "i", "l", "e", "d", " ", "t", "o", " ", "f", "e", "t", "c", "h">>]

\* response.json() rejects with a SyntaxError when the body is not JSON
ParseFailure ==
    [name |-> "SyntaxError",
     message |-> <<"U", "n", "e", "x", "p", "e", "c", "t", "e", "d", " ", "t", "o", "k",
                 "e", "n">>]

\* line 294: new Error('Request failed after retries')
RetriesFailed ==
    [name |-> "Error",
     message |-> <<"R", "e", "q", "u", "e", "s", "t", " ", "f", "a", "i", "l", "e", "d",
                 " ", "a", "f", "t", "e", "r", " ", "r", "e", "t", "r", "i", "e", "s">>]

\* ----------------------------------------------------------------- values
\* interface NetworkMetrics (lines 126-132)
Metrics(rt, hit, rc, size, ts) ==
    [responseTime |-> rt, cacheHit |-> hit, retryCount |-> rc, payloadSize |-> size,
     timestamp |-> ts]
NoMetrics == Metrics(0, FALSE, 0, 0, 0)

\* JSON.parse of a body: a number when the text is all digits, else a SyntaxError
IsJson(body) == Len(body) > 0 /\ \A i \in 1..Len(body) : IsDigit(body[i])
ParseJson(body) == [t |-> "num", n |-> NumberOf(body), data |-> 0, metrics |-> NoMetrics]

NoData == [t |-> "none", n |-> 0, data |-> 0, metrics |-> NoMetrics]

\* the object { data, metrics } that executeRequest returns (line 263), seen as a value
Wrap(data, m) == [t |-> "obj", n |-> 0, data |-> data.n, metrics |-> m]

\* JSON.stringify(value).length; an object { data, metrics } is written
\* {"data":D,"metrics":{"responseTime":R,"cacheHit":false,"retryCount":C,
\*  "payloadSize":P,"timestamp":T}}
JsonLength(v) ==
    IF v.t = "num" THEN Len(Digits(v.n))
    ELSE 8 + Len(Digits(v.data)) + 12
         + 15 + Len(Digits(v.metrics.responseTime))
         + 12 + (IF v.metrics.cacheHit THEN 4 ELSE 5)
         + 14 + Len(Digits(v.metrics.retryCount))
         + 15 + Len(Digits(v.metrics.payloadSize))
         + 13 + Len(Digits(v.metrics.timestamp)) + 2

\* ---------------------------------------------------------------- options
\* A RequestConfig object is the sequence of its own properties <<name, value>> in
\* creation order; the value of "signal" is an AbortSignal object, written 0 here.
Has(options, name) == \E i \in 1..Len(options) : options[i][1] = name
Prop(options, name, default) ==
    IF Has(options, name)
    THEN options[CHOOSE i \in 1..Len(options) : options[i][1] = name][2]
    ELSE default

\* the options the callers of the model pass: { timeout, retry, ttl, retryDelay [, signal] }
CallOptions(r, withSignal) ==
    <<<<"timeout", 60000>>, <<"retry", r>>, <<"ttl", 60000>>, <<"retryDelay", 60000>>>>
    \o (IF withSignal THEN <<<<"signal", 0>>>> ELSE <<>>)
OptionChoices == {CallOptions(r, TRUE) : r \in RetryChoices}

\* JSON.stringify(options): each property as <<name, text>>; an AbortSignal has no
\* enumerable own property and is written {}
Stringify(options) ==
    [i \in 1..Len(options) |->
        <<options[i][1],
          IF options[i][1] = "signal" THEN <<"{", "}">> ELSE Digits(options[i][2])>>]

\* lines 297-299: `${url}:${JSON.stringify(options)}`
getCacheKey(url, options) == <<url, Stringify(options)>>

\* lines 212-218: the destructuring defaults of executeRequest
Timeout(options) == Prop(options, "timeout", defaultTimeout)
Retry(options) == Prop(options, "retry", defaultRetry)
Ttl(options) == Prop(options, "ttl", defaultTtl)
RetryDelay(options) == Prop(options, "retryDelay", defaultRetryDelay)

\* ------------------------------------------------------------------ state
VARIABLES
    now,              \* Date.now() / performance.now()
    nextSweep,        \* when the setInterval of the constructor fires next (line 158)
    cache,            \* Map<string, CacheEntry>, a sequence in Map (insertion) order
    pendingRequests,  \* Map<string, Promise>: set of [key, pid]
    metrics,          \* Map<string, NetworkMetrics[]>: url -> history (<<>> when absent)
    reqs,             \* the executeRequest activations, pid = index (the promise it returns)
    callers,          \* the fetch activations of the callers
    microtasks,       \* continuations of settled promises waiting to run, in order
    calls,            \* number of fetch calls made so far
    hooks,            \* the useDataFetch instances: state, refs and position
    acts              \* the fetchData activations awaiting networkService.fetch, by caller

\* the variables of NetworkService, and those of the useDataFetch instances
nvars ==
    <<now, nextSweep, cache, pendingRequests, metrics, reqs, callers, microtasks, calls>>
hvars == <<hooks, acts>>
vars ==
    <<now, nextSweep, cache, pendingRequests, metrics, reqs, callers, microtasks, calls,
      hooks, acts>>

\* every URL that has a cache entry or a metrics history in some state of the model
AllUrls == 1..maxCacheSize

\* ------------------------------------------------------------- Cache Store
Present(c, key) == \E i \in 1..Len(c) : c[i].key = key
EntryOf(c, key) == c[CHOOSE i \in 1..Len(c) : c[i].key = key]

\* Map.prototype.delete
MapDelete(c, key) == SelectSeq(c, LAMBDA e : e.key # key)
\* Map.prototype.set: an existing key keeps its place, a new key goes last
MapSet(c, e) ==
    IF Present(c, e.key)
    THEN [i \in 1..Len(c) |-> IF c[i].key = e.key THEN e ELSE c[i]]
    ELSE Append(c, e)

\* variant of Expired: an age of exactly ttl counts as expired
ExpiredAtTtl(e, t) == t - e.timestamp >= e.ttl

\* variant of Expired: every entry found counts as expired
ExpiredAlways(e, t) == TRUE

\* line 305: the entry has expired
Expired(e, t) == t - e.timestamp > e.ttl

\* variant of getFromCache: a hit makes the entry the most recent one (true LRU)
getFromCacheTouch(c, key, t) ==
    IF ~Present(c, key) THEN [hit |-> FALSE, data |-> NoData, cache |-> c]
    ELSE IF Expired(EntryOf(c, key), t)
         THEN [hit |-> FALSE, data |-> NoData, cache |-> MapDelete(c, key)]
         ELSE [hit |-> TRUE, data |-> EntryOf(c, key).data,
               cache |-> Append(MapDelete(c, key), EntryOf(c, key))]

\* lines 301-311: [hit, data, cache]
getFromCache(c, key, t) ==
    IF ~Present(c, key) THEN [hit |-> FALSE, data |-> NoData, cache |-> c]
    ELSE IF Expired(EntryOf(c, key), t)
         THEN [hit |-> FALSE, data |-> NoData, cache |-> MapDelete(c, key)]
         ELSE [hit |-> TRUE, data |-> EntryOf(c, key).data, cache |-> c]

\* variant of EvictAtCapacity: nothing is evicted
EvictNever(c) == c

\* lines 315-318: the key setCache deletes before it inserts
EvictAtCapacity(c) == IF Len(c) >= maxCacheSize THEN MapDelete(c, c[1].key) ELSE c

\* history: the place of a new entry in insertion order, one more than the latest present
Serial(c) ==
    IF Len(c) = 0 THEN 1
    ELSE 1 + CHOOSE n \in {c[i].serial : i \in 1..Len(c)} : \A i \in 1..Len(c) : n >= c[i].serial

\* lines 313-326
setCache(c, key, data, ttl, etag, t) ==
    MapSet(EvictAtCapacity(c),
           [key |-> key, data |-> data, timestamp |-> t, ttl |-> ttl, etag |-> etag,
            serial |-> Serial(c)])

\* lines 328-335
cleanupCache(c, t) == SelectSeq(c, LAMBDA e : ~Expired(e, t))

\* ---------------------------------------------------------- Metrics Recorder
\* variant of recordMetrics: the entries beyond the first metricsCap are cut off
recordMetricsKeepOldest(ms, url, m) ==
    LET pushed == Append(ms[url], m)
    IN  [ms EXCEPT ![url] =
            IF Len(pushed) > metricsCap THEN SubSeq(pushed, 1, metricsCap) ELSE pushed]

\* lines 337-349
recordMetrics(ms, url, m) ==
    LET pushed == Append(ms[url], m)
    IN  [ms EXCEPT ![url] =
            IF Len(pushed) > metricsCap
            THEN SubSeq(pushed, Len(pushed) - metricsCap + 1, Len(pushed))
            ELSE pushed]

\* history: what a getFromCache call found, and what a setCache call evicted
NoRead ==
    [found |-> FALSE, serial |-> 0, age |-> 0, ttl |-> 0, hit |-> FALSE, deleted |-> FALSE,
     victimBefore |-> 0, victimAfter |-> 0]
NoEvict == [evicted |-> 0, count |-> 0, oldest |-> 0, size |-> 0]

\* ------------------------------------------------------------ Retry Executor
\* lines 207-221: the activation record of one executeRequest call
NewRequest(url, options, owner, t) ==
    [url |-> url, options |-> options, key |-> getCacheKey(url, options),
     startTime |-> t, owner |-> owner,
     attempt |-> 0, retryCount |-> 0, lastError |-> NoError,
     phase |-> "start", timeoutDue |-> 0, delayDue |-> 0,
     waiters |-> <<>>, data |-> NoData, metrics |-> NoMetrics, error |-> NoError,
     \* history
     physical |-> 0, outcomes |-> <<>>, delays |-> <<>>,
     cancelled |-> FALSE, abortedEarly |-> FALSE, sharedAtCancel |-> FALSE,
     evict |-> NoEvict]

\* lines 284-294: the loop is left without a result
Failed(r) ==
    [r EXCEPT !.phase = "rejected",
              !.error = IF r.lastError = NoError THEN RetriesFailed ELSE r.lastError]

\* variant of ShouldBreak: a client error is retried like any other error
ShouldBreakNo4xx(err, signalAborted) ==
    \/ err.name = "AbortError"
    \/ signalAborted

\* lines 270-274
ShouldBreak(err, signalAborted) ==
    \/ err.name = "AbortError"
    \/ signalAborted
    \/ Includes(err.message, <<"H", "T", "T", "P", " ", "4">>)

\* variant of Catch: retryCount is not incremented
CatchNoCount(r, err, signalAborted, t) ==
    LET r1 == [r EXCEPT !.lastError = err]
    IN  IF ShouldBreak(err, signalAborted) THEN Failed(r1)
        ELSE IF r.attempt < Retry(r.options)
             THEN [r1 EXCEPT !.phase = "delaying",
                             !.delayDue = t + RetryDelay(r.options) * Pow2(r.attempt),
                             !.delays = Append(@, RetryDelay(r.options) * Pow2(r.attempt))]
             ELSE Failed([r1 EXCEPT !.attempt = @ + 1])

\* lines 265-281, then the attempt++ and the loop test of line 223
Catch(r, err, signalAborted, t) ==
    LET r1 == [r EXCEPT !.lastError = err, !.retryCount = @ + 1]
    IN  IF ShouldBreak(err, signalAborted) THEN Failed(r1)
        ELSE IF r.attempt < Retry(r.options)
             THEN [r1 EXCEPT !.phase = "delaying",
                             !.delayDue = t + RetryDelay(r.options) * Pow2(r.attempt),
                             !.delays = Append(@, RetryDelay(r.options) * Pow2(r.attempt))]
             ELSE Failed([r1 EXCEPT !.attempt = @ + 1])

\* variant of Loop: the loop test is attempt < retry
LoopOneShort(r, signalAborted, t) ==
    IF r.attempt >= Retry(r.options) THEN Failed(r)
    ELSE IF signalAborted THEN Catch(r, RequestAborted, signalAborted, t)
    ELSE [r EXCEPT !.phase = "fetching", !.timeoutDue = t + Timeout(r.options),
                   !.physical = @ + 1]

\* lines 223-239: the loop test and an iteration up to the await of fetch()
Loop(r, signalAborted, t) ==
    IF r.attempt > Retry(r.options) THEN Failed(r)
    ELSE IF signalAborted THEN Catch(r, RequestAborted, signalAborted, t)
    ELSE [r EXCEPT !.phase = "fetching", !.timeoutDue = t + Timeout(r.options),
                   !.physical = @ + 1]

\* line 229, 272: signal?.aborted of the options the request was started with
SignalAborted(r) == Has(r.options, "signal") /\ callers[r.owner].aborted

Settled(r) == r.phase \in {"fulfilled", "rejected"}

\* the request after a step of its loop: a failed request records its metrics
\* (lines 285-292) and its promise rejects, which queues the callers awaiting it
Continue(pid, r2) ==
    /\ reqs' = [reqs EXCEPT ![pid] = r2]
    /\ IF r2.phase = "rejected"
       THEN /\ metrics' = recordMetrics(metrics, r2.url,
                              Metrics(now - r2.startTime, FALSE, r2.retryCount, 0, now))
            /\ microtasks' = microtasks \o r2.waiters
       ELSE UNCHANGED <<metrics, microtasks>>

\* ------------------------------------------------------------------- Init
FullCache ==
    [i \in 1..maxCacheSize |->
        [key |-> getCacheKey(i, CallOptions(0, TRUE)), data |-> ParseJson(<<"7">>),
         timestamp |-> 0, ttl |-> Ttl(CallOptions(0, TRUE)), etag |-> "", serial |-> i]]

IdleCaller ==
    [pc |-> "idle", url |-> 0, options |-> <<>>, key |-> getCacheKey(0, <<>>),
     startTime |-> 0, pid |-> 0, aborted |-> FALSE, role |-> "", read |-> NoRead,
     kind |-> "none", data |-> NoData, metrics |-> NoMetrics, error |-> NoError]

\* The service after construction, with the cache either empty or holding the
\* maxCacheSize entries that fetches of the URLs 1..maxCacheSize left at time 0.
Init ==
    /\ now = 0
    /\ nextSweep = cleanupInterval
    /\ \E full \in FillChoices :
          /\ cache = IF full THEN FullCache ELSE <<>>
          /\ metrics = [u \in AllUrls |->
                           IF full THEN <<Metrics(0, FALSE, 0, 1, 0)>> ELSE <<>>]
    /\ pendingRequests = {}
    /\ reqs = <<>>
    /\ callers = [c \in Callers |-> IdleCaller]
    /\ microtasks = <<>>
    /\ calls = 0
    /\ hooks = <<>>
    /\ acts = <<>>

\* --------------------------------------------------------------- actions
Victim(c) == IF Len(c) = 0 THEN 0 ELSE c[1].serial
PendingPid(key) == (CHOOSE e \in pendingRequests : e.key = key).pid

\* variant of HasPending: the registry is never consulted
HasPendingNever(key) == FALSE

\* line 183: this.pendingRequests.has(cacheKey)
HasPending(key) == \E e \in pendingRequests : e.key = key

\* what a caller holds when its fetch call has returned or thrown
Returned(cr, data, m) ==
    [cr EXCEPT !.pc = "done", !.kind = "data", !.data = data, !.metrics = m]
Thrown(cr, err) == [cr EXCEPT !.pc = "done", !.kind = "error", !.error = err]

\* history is kept until the next call: a caller that holds a result forgets it, and
\* the record of a request whose promise every awaiting caller has observed is dropped
Gone == [NewRequest(0, <<>>, 0, 0) EXCEPT !.phase = "gone"]
Observed(p) ==
    /\ Settled(reqs[p])
    /\ \A d \in Callers : callers[d].pid = p => callers[d].pc = "done"
Forget(rs) == [p \in 1..Len(rs) |-> IF Observed(p) THEN Gone ELSE rs[p]]
Rest(cs) == [d \in Callers |-> IF cs[d].pc = "done" THEN IdleCaller ELSE cs[d]]

\* lines 161-205, up to the first await: caller c calls networkService.fetch(url, options);
\* `aborted` tells whether options.signal is aborted already.  Callers are
\* interchangeable: the free caller with the least number makes the call.
fetch(c, url, options, aborted) ==
    /\ callers[c].pc \in {"idle", "done"}
    /\ \A d \in Callers : d < c => callers[d].pc \notin {"idle", "done"}
    /\ calls < MaxCalls
    /\ aborted => Has(options, "signal")
    /\ calls' = calls + 1
    /\ LET cacheKey == getCacheKey(url, options)
           cached == getFromCache(cache, cacheKey, now)
           read == IF Present(cache, cacheKey)
                   THEN [found |-> TRUE, serial |-> EntryOf(cache, cacheKey).serial,
                         age |-> now - EntryOf(cache, cacheKey).timestamp,
                         ttl |-> EntryOf(cache, cacheKey).ttl, hit |-> cached.hit,
                         deleted |-> ~Present(cached.cache, cacheKey),
                         victimBefore |-> Victim(cache),
                         victimAfter |-> Victim(cached.cache)]
                   ELSE NoRead
           cr == [IdleCaller EXCEPT !.url = url, !.options = options, !.key = cacheKey,
                                    !.startTime = now, !.aborted = aborted, !.read = read]
       IN
       /\ cache' = cached.cache
       /\ IF cached.hit
          THEN \* lines 170-180
               LET m == Metrics(0, TRUE, 0, JsonLength(cached.data), now)
               IN  /\ metrics' = recordMetrics(metrics, url, m)
                   /\ callers' = [Rest(callers) EXCEPT ![c] =
                                     Returned([cr EXCEPT !.role = "cache"], cached.data, m)]
                   /\ reqs' = Forget(reqs)
                   /\ UNCHANGED <<pendingRequests, microtasks>>
          ELSE IF HasPending(cacheKey)
          THEN \* lines 183-184: await the promise another caller registered
               LET pid == PendingPid(cacheKey)
               IN  /\ callers' = [Rest(callers) EXCEPT ![c] =
                                     [cr EXCEPT !.pc = "attached", !.role = "attached",
                                                !.pid = pid]]
                   /\ IF Settled(reqs[pid])
                      THEN /\ microtasks' = Append(microtasks, c)
                           /\ reqs' = Forget(reqs)
                      ELSE /\ reqs' = [Forget(reqs) EXCEPT ![pid].waiters = Append(@, c)]
                           /\ microtasks' = microtasks
                   /\ UNCHANGED <<pendingRequests, metrics>>
          ELSE \* lines 196-200: executeRequest runs up to its first await
               LET pid == Len(reqs) + 1
                   r0 == NewRequest(url, options, c, now)
                   r1 == Loop([r0 EXCEPT !.cancelled = aborted, !.abortedEarly = aborted],
                              Has(options, "signal") /\ aborted, now)
               IN     /\ callers' = [Rest(callers) EXCEPT ![c] =
                                        [cr EXCEPT !.pc = "initiator", !.role = "initiator",
                                                   !.pid = pid]]
                      /\ pendingRequests' = pendingRequests \cup {[key |-> cacheKey, pid |-> pid]}
                      /\ IF r1.phase = "rejected"
                         THEN /\ reqs' = Append(Forget(reqs), r1)
                              /\ metrics' = recordMetrics(metrics, url,
                                                Metrics(0, FALSE, r1.retryCount, 0, now))
                              /\ microtasks' = Append(microtasks, c)
                         ELSE /\ reqs' = Append(Forget(reqs), [r1 EXCEPT !.waiters = <<c>>])
                              /\ UNCHANGED <<metrics, microtasks>>
    /\ UNCHANGED <<now, nextSweep>>

\* the continuation of `await requestPromise` (line 200) or of the await of line 184,
\* for the caller at the head of the microtask queue
Resume ==
    /\ microtasks # <<>>
    /\ LET c == Head(microtasks)
           cr == callers[c]
           r == reqs[cr.pid]
       IN  /\ microtasks' = Tail(microtasks)
           /\ IF cr.role = "initiator"
              THEN \* lines 199-204
                   /\ pendingRequests' = {e \in pendingRequests : e.key # cr.key}
                   /\ callers' = [callers EXCEPT ![c] =
                                     IF r.phase = "fulfilled"
                                     THEN Returned(cr, r.data, r.metrics)
                                     ELSE Thrown(cr, r.error)]
              ELSE \* lines 184-192
                   /\ pendingRequests' = pendingRequests
                   /\ callers' = [callers EXCEPT ![c] =
                                     IF r.phase = "fulfilled"
                                     THEN LET data == Wrap(r.data, r.metrics)
                                          IN  Returned(cr, data,
                                                  Metrics(now - cr.startTime, FALSE, 0,
                                                          JsonLength(data), now))
                                     ELSE Thrown(cr, r.error)]
    /\ UNCHANGED <<now, nextSweep, cache, metrics, reqs, calls>>

\* the caller aborts the AbortController whose signal it passed in options.signal
Abort(c) ==
    /\ callers[c].pc \in {"attached", "initiator"}
    /\ Has(callers[c].options, "signal")
    /\ ~callers[c].aborted
    /\ callers' = [callers EXCEPT ![c].aborted = TRUE]
    /\ reqs' = [p \in 1..Len(reqs) |->
                   IF reqs[p].owner = c /\ callers[c].pid = p /\ ~Settled(reqs[p])
                      /\ callers[c].role = "initiator"
                   THEN [reqs[p] EXCEPT !.cancelled = TRUE,
                                        !.abortedEarly = (Len(reqs[p].outcomes) = 0),
                                        !.sharedAtCancel = (Len(reqs[p].waiters) > 1)]
                   ELSE reqs[p]]
    /\ UNCHANGED <<now, nextSweep, cache, pendingRequests, metrics, microtasks, calls>>

\* history: what a physical attempt ended with
Outcome(kind, status) == [kind |-> kind, status |-> status]
Ended(r, kind, status) == [r EXCEPT !.outcomes = Append(@, Outcome(kind, status))]

\* history: the serial of the entry inserted earliest, and the serial of the entry
\* that is in c and no longer in d (0 when there is none)
Oldest(c) ==
    IF Len(c) = 0 THEN 0
    ELSE CHOOSE n \in {c[i].serial : i \in 1..Len(c)} : \A i \in 1..Len(c) : n <= c[i].serial
Evicted(c, d) ==
    LET lost == {c[i].serial : i \in 1..Len(c)} \ {d[i].serial : i \in 1..Len(d)}
    IN  IF lost = {} THEN 0 ELSE CHOOSE n \in lost : TRUE

\* line 233 resolves: the response headers of the physical request have arrived;
\* lines 241-247 up to the await of response.json()
Respond(pid, status) ==
    /\ microtasks = <<>>
    /\ reqs[pid].phase = "fetching"
    /\ LET r == reqs[pid]
       IN  IF status >= 200 /\ status <= 299
           THEN \* line 241 clears the timer; line 247 awaits the body
                /\ reqs' = [reqs EXCEPT ![pid].phase = "reading", ![pid].timeoutDue = 0]
                /\ UNCHANGED <<metrics, microtasks>>
           ELSE Continue(pid, Catch(Ended(r, "http", status), HttpError(status),
                                    SignalAborted(r), now))
    /\ UNCHANGED <<now, nextSweep, cache, pendingRequests, callers, calls>>

\* line 233 rejects: the physical request failed on the network
NetworkError(pid) ==
    /\ microtasks = <<>>
    /\ reqs[pid].phase = "fetching"
    /\ Continue(pid, Catch(Ended(reqs[pid], "network", 0), NetworkFailure,
                           SignalAborted(reqs[pid]), now))
    /\ UNCHANGED <<now, nextSweep, cache, pendingRequests, callers, calls>>

\* the timer of line 226 fires while fetch() is pending: controller.abort() makes
\* fetch() reject with an AbortError
TimeoutFires(pid) ==
    /\ microtasks = <<>>
    /\ reqs[pid].phase = "fetching"
    /\ now >= reqs[pid].timeoutDue
    /\ Continue(pid, Catch(Ended(reqs[pid], "timeout", 0), TimeoutAbort,
                           SignalAborted(reqs[pid]), now))
    /\ UNCHANGED <<now, nextSweep, cache, pendingRequests, callers, calls>>

\* line 247 resolves or rejects: the body has been read and parsed; lines 248-263
BodyRead(pid, body, etag) ==
    /\ microtasks = <<>>
    /\ reqs[pid].phase = "reading"
    /\ LET r == reqs[pid]
           data == ParseJson(body)
           m == Metrics(now - r.startTime, FALSE, r.retryCount, JsonLength(data), now)
       IN  IF IsJson(body)
           THEN /\ cache' = setCache(cache, getCacheKey(r.url, r.options), data,
                                     Ttl(r.options), etag, now)
                /\ metrics' = recordMetrics(metrics, r.url, m)
                /\ reqs' = [reqs EXCEPT ![pid] =
                               [Ended(r, "ok", 200) EXCEPT
                                   !.phase = "fulfilled", !.data = data, !.metrics = m,
                                   !.evict = [evicted |-> Evicted(cache, cache'),
                                              count |-> Len(cache) + 1 - Len(cache'),
                                              oldest |-> Oldest(cache),
                                              size |-> Len(cache)]]]
                /\ microtasks' = microtasks \o r.waiters
           ELSE /\ Continue(pid, Catch(Ended(r, "parse", 200), ParseFailure,
                                       SignalAborted(r), now))
                /\ UNCHANGED cache
    /\ UNCHANGED <<now, nextSweep, pendingRequests, callers, calls>>

\* lines 279, 351-353: the backoff timer fires; attempt++ and the next iteration
DelayDone(pid) ==
    /\ microtasks = <<>>
    /\ reqs[pid].phase = "delaying"
    /\ now >= reqs[pid].delayDue
    /\ Continue(pid, Loop([reqs[pid] EXCEPT !.attempt = @ + 1, !.delayDue = 0],
                          SignalAborted(reqs[pid]), now))
    /\ UNCHANGED <<now, nextSweep, cache, pendingRequests, callers, calls>>

\* line 158: the periodic sweep
Sweep ==
    /\ microtasks = <<>>
    /\ now >= nextSweep
    /\ cache' = cleanupCache(cache, now)
    /\ nextSweep' = nextSweep + cleanupInterval
    /\ UNCHANGED <<now, pendingRequests, metrics, reqs, callers, microtasks, calls>>

\* lines 381-383
clearCache ==
    /\ cache # <<>>
    /\ cache' = <<>>
    /\ UNCHANGED <<now, nextSweep, pendingRequests, metrics, reqs, callers, microtasks,
                   calls>>

\* time passes; the sweep that is due runs before the clock advances again
Tick(d) ==
    /\ microtasks = <<>>
    /\ now < nextSweep
    /\ now' = now + d
    /\ UNCHANGED <<nextSweep, cache, pendingRequests, metrics, reqs, callers, microtasks,
                   calls>>

\* the number of keys with a request in flight once fetch(url, options) has run
BusyKeys(url, options) ==
    LET cacheKey == getCacheKey(url, options)
    IN  IF getFromCache(cache, cacheKey, now).hit \/ HasPending(cacheKey)
        THEN Cardinality({e.key : e \in pendingRequests})
        ELSE Cardinality({e.key : e \in pendingRequests} \cup {cacheKey})

Next ==
    \/ \E c \in Callers, url \in Urls, options \in OptionChoices, aborted \in BOOLEAN :
          /\ BusyKeys(url, options) <= MaxBusyKeys
          /\ fetch(c, url, options, aborted)
          /\ UNCHANGED hvars
    \/ Resume /\ UNCHANGED hvars
    \/ \E c \in Callers : Abort(c) /\ UNCHANGED hvars
    \/ \E pid \in 1..Len(reqs), status \in Statuses : Respond(pid, status) /\ UNCHANGED hvars
    \/ \E pid \in 1..Len(reqs) : NetworkError(pid) /\ UNCHANGED hvars
    \/ \E pid \in 1..Len(reqs) : TimeoutFires(pid) /\ UNCHANGED hvars
    \/ \E pid \in 1..Len(reqs), body \in Bodies, etag \in Etags :
          BodyRead(pid, body, etag) /\ UNCHANGED hvars
    \/ \E pid \in 1..Len(reqs) : DelayDone(pid) /\ UNCHANGED hvars
    \/ Sweep /\ UNCHANGED hvars
    \/ clearCache /\ UNCHANGED hvars
    \/ \E d \in TickSteps :
          now + d <= MaxTicks * cleanupInterval /\ Tick(d) /\ UNCHANGED hvars

Spec == Init /\ [][Next]_vars

\* ------------------------------------------------ callers with unequal options
\* NetworkService with callers whose options differ for one url.  The two option
\* objects hold the same properties with the same values, created in two orders:
\* { timeout, retry, ... } and { retry, timeout, ... }.  With retry 0 no request
\* waits a backoff delay.
MaxDedupKeys == 2      \* number of distinct keys with requests in flight

SwappedOptions(r) ==
    <<<<"retry", r>>, <<"timeout", 60000>>, <<"ttl", 60000>>, <<"retryDelay", 60000>>,
      <<"signal", 0>>>>
DedupChoices == {CallOptions(0, TRUE), SwappedOptions(0)}

\* lines 212-218: the configuration executeRequest runs with
Effective(options) ==
    <<Timeout(options), Retry(options), Ttl(options), RetryDelay(options)>>

DedupNext ==
    \/ \E c \in Callers, url \in Urls, options \in DedupChoices, aborted \in BOOLEAN :
          /\ BusyKeys(url, options) <= MaxDedupKeys
          /\ fetch(c, url, options, aborted)
          /\ UNCHANGED hvars
    \/ Resume /\ UNCHANGED hvars
    \/ \E c \in Callers : Abort(c) /\ UNCHANGED hvars
    \/ \E pid \in 1..Len(reqs), status \in Statuses : Respond(pid, status) /\ UNCHANGED hvars
    \/ \E pid \in 1..Len(reqs) : NetworkError(pid) /\ UNCHANGED hvars
    \/ \E pid \in 1..Len(reqs) : TimeoutFires(pid) /\ UNCHANGED hvars
    \/ \E pid \in 1..Len(reqs), body \in Bodies, etag \in Etags :
          BodyRead(pid, body, etag) /\ UNCHANGED hvars
    \/ Sweep /\ UNCHANGED hvars
    \/ clearCache /\ UNCHANGED hvars
    \/ \E d \in TickSteps :
          now + d <= MaxTicks * cleanupInterval /\ Tick(d) /\ UNCHANGED hvars

DedupSpec == Init /\ [][DedupNext]_vars

\* ------------------------------------------------------- a long history
\* NetworkService after metricsCap - 1 fetches of the url of the model, whose entries
\* have left the cache: the history of the url holds metricsCap - 1 entries, told
\* apart by their response times of 1, 2, ... ms.
LongHistory == [i \in 1..(metricsCap - 1) |-> Metrics(i, FALSE, 0, 1, 0)]

CapInit ==
    /\ now = 0
    /\ nextSweep = cleanupInterval
    /\ cache = <<>>
    /\ metrics = [u \in AllUrls |-> IF u \in Urls THEN LongHistory ELSE <<>>]
    /\ pendingRequests = {}
    /\ reqs = <<>>
    /\ callers = [c \in Callers |-> IdleCaller]
    /\ microtasks = <<>>
    /\ calls = 0
    /\ hooks = <<>>
    /\ acts = <<>>

CapSpec == CapInit /\ [][Next]_vars

\* ------------------------------------------------------- one request, retried
\* NetworkService with one fetch call whose retry budget is up to MaxBackoffRetry and
\* whose retryDelay is a quarter of a minute, so that the backoff delays retryDelay,
\* 2 * retryDelay and 4 * retryDelay each end at the next reading of the clock.
MaxBackoffCalls == 1   \* number of networkService.fetch calls
MaxBackoffRetry == 3   \* largest `retry` option of the call
MaxBackoffTicks == 4   \* number of times the clock advances (by a minute)

BackoffOptions(r) ==
    <<<<"timeout", 60000>>, <<"retry", r>>, <<"ttl", 60000>>, <<"retryDelay", 15000>>,
      <<"signal", 0>>>>
BackoffChoices == {BackoffOptions(r) : r \in 0..MaxBackoffRetry}

BackoffNext ==
    \/ \E c \in Callers, url \in Urls, options \in BackoffChoices, aborted \in BOOLEAN :
          /\ calls < MaxBackoffCalls
          /\ fetch(c, url, options, aborted)
          /\ UNCHANGED hvars
    \/ Resume /\ UNCHANGED hvars
    \/ \E c \in Callers : Abort(c) /\ UNCHANGED hvars
    \/ \E pid \in 1..Len(reqs), status \in Statuses : Respond(pid, status) /\ UNCHANGED hvars
    \/ \E pid \in 1..Len(reqs) : NetworkError(pid) /\ UNCHANGED hvars
    \/ \E pid \in 1..Len(reqs) : TimeoutFires(pid) /\ UNCHANGED hvars
    \/ \E pid \in 1..Len(reqs), body \in Bodies, etag \in Etags :
          BodyRead(pid, body, etag) /\ UNCHANGED hvars
    \/ \E pid \in 1..Len(reqs) : DelayDone(pid) /\ UNCHANGED hvars
    \/ Sweep /\ UNCHANGED hvars
    \/ clearCache /\ UNCHANGED hvars
    \/ \E d \in TickSteps :
          now + d <= MaxBackoffTicks * cleanupInterval /\ Tick(d) /\ UNCHANGED hvars

BackoffSpec == Init /\ [][BackoffNext]_vars

\* ============================================================ useDataFetch
\* The hook useDataFetch (src/app/utils/useDataFetch.ts, lines 23-148) on top of
\* NetworkService.  A hook instance keeps its React state (data, loading, error,
\* metrics, lastFetch) and its ref (abortControllerRef).  A call of fetchData runs
\* synchronously up to `await networkService.fetch(...)` (lines 45-66), in the model
\* in two steps with nothing in between: lines 45-60, then the call of line 63.  Its
\* continuation (lines 68-85) runs when the promise of the call has settled.  An
\* event handler sees the state of the latest render; the continuation of a call
\* sees the `data` of the render in which the call was made.

Hooks == {1}
HookUrls == {1, 2}                      \* the url prop of a hook, numbered
HookBodies == {<<"7">>, <<"0">>}        \* JSON texts of a truthy and of a falsy value

\* Date.now() when the page is loaded: far more than staleTime after the epoch
PageLoad == 2 * cleanupInterval

\* JavaScript truthiness of a value (null is NoData)
Truthy(v) == v.t = "obj" \/ (v.t = "num" /\ v.n # 0)

\* interface UseDataFetchOptions (lines 6-12): the options a consumer passes; the
\* rest (networkOptions, line 33) are { timeout, retry, ttl, retryDelay }
UseOptions(fallbackData, retry) ==
    [staleTime |-> 60000, refetchOnFocus |-> TRUE, refetchOnReconnect |-> TRUE,
     enabled |-> TRUE, fallbackData |-> fallbackData, retry |-> retry]
FallbackChoices == {NoData, ParseJson(<<"9">>)}
UseOptionChoices == {UseOptions(f, r) : f \in FallbackChoices, r \in RetryChoices}

\* lines 63-66: { ...networkOptions, signal: abortControllerRef.current.signal }
NetOptions(options) == CallOptions(options.retry, TRUE)

\* abortControllerRef.current: undefined, or a controller with the caller number
\* of the fetch call that holds its signal while that call is pending
NoController == [set |-> FALSE, aborted |-> FALSE, caller |-> 0]
NewController == [set |-> TRUE, aborted |-> FALSE, caller |-> 0]

\* history, kept until the next fetchData call: the last focus or online event, and
\* the last fetchData call that ended
NoEvent == [kind |-> "none", stale |-> FALSE, hadError |-> FALSE, started |-> FALSE]
NoLast == [trigger |-> "", role |-> "", kind |-> "none", cancelled |-> FALSE]

\* lines 36-43: the state of a hook at its first render
NewHook(url, options) ==
    [pc |-> "init", url |-> url, options |-> options,
     data |-> IF Truthy(options.fallbackData) THEN options.fallbackData ELSE NoData,
     loading |-> FALSE, error |-> NoError, metrics |-> NoMetrics, lastFetch |-> 0,
     ref |-> NoController, trigger |-> "",
     \* history
     source |-> IF Truthy(options.fallbackData) THEN "fallback" ELSE "none",
     event |-> NoEvent, last |-> NoLast]

NoAct == [hook |-> 0, data |-> NoData, trigger |-> ""]

\* lines 138-147: what the hook returns to its consumer (refetch is a function)
Result(hk) ==
    [data |-> hk.data, loading |-> hk.loading, error |-> hk.error, metrics |-> hk.metrics,
     isStale |-> now - hk.lastFetch > hk.options.staleTime]

HookInit ==
    /\ now = PageLoad
    /\ nextSweep = PageLoad + cleanupInterval
    /\ cache = <<>>
    /\ metrics = [u \in AllUrls |-> <<>>]
    /\ pendingRequests = {}
    /\ reqs = <<>>
    /\ callers = [c \in Callers |-> IdleCaller]
    /\ microtasks = <<>>
    /\ calls = 0
    /\ \E options \in UseOptionChoices : hooks = [h \in Hooks |-> NewHook(1, options)]
    /\ acts = [c \in Callers |-> NoAct]

\* no fetchData call is between its line 60 and its line 63
Calm == \A h \in Hooks : hooks[h].pc # "calling"

\* lines 46-51: fetchData goes on to make a request
CanFetch(hk, force) ==
    /\ hk.options.enabled
    /\ ~(~force /\ Truthy(hk.data) /\ now - hk.lastFetch < hk.options.staleTime)

\* lines 53-60 of fetchData, called by hook h in the state hk: the previous
\* controller is aborted, a new one is made, loading and error are set
fetchData(h, hk, trigger) ==
    /\ calls < MaxCalls
    /\ IF hk.ref.caller # 0 /\ ~callers[hk.ref.caller].aborted
       THEN Abort(hk.ref.caller)
       ELSE UNCHANGED nvars
    /\ hooks' = [hooks EXCEPT ![h] =
                    [hk EXCEPT !.pc = "calling", !.trigger = trigger,
                               !.ref = NewController, !.loading = TRUE,
                               !.error = NoError, !.last = NoLast]]
    /\ UNCHANGED acts

\* lines 67-85: the continuation of fetchData once networkService.fetch has returned
\* or thrown (cr: the fetch call), for the hook in the state hk; act holds the
\* `data` of the render in which fetchData was called.  A state update of an
\* unmounted component has no effect.
Settle(hk, act, cr, t) ==
    LET aborted == hk.ref.aborted
        last == [trigger |-> act.trigger, role |-> cr.role, kind |-> cr.kind,
                 cancelled |-> cr.aborted]
        h1 == [hk EXCEPT !.last = last]
    IN  IF hk.pc = "unmounted" THEN h1
        ELSE IF cr.kind = "data"
        THEN IF aborted THEN h1
             ELSE [h1 EXCEPT !.data = cr.data, !.metrics = cr.metrics, !.lastFetch = t,
                             !.source = "fetched", !.loading = FALSE]
        ELSE LET h2 == IF cr.error.name # "AbortError"
                       THEN IF ~Truthy(act.data) /\ Truthy(hk.options.fallbackData)
                            THEN [h1 EXCEPT !.error = cr.error,
                                            !.data = hk.options.fallbackData,
                                            !.source = "fallback"]
                            ELSE [h1 EXCEPT !.error = cr.error]
                       ELSE h1
             IN  IF aborted THEN h2 ELSE [h2 EXCEPT !.loading = FALSE]

\* line 63: fetchData calls networkService.fetch; when the value is in the cache the
\* call returns at once and the continuation follows
fetchDataCall(h) ==
    /\ hooks[h].pc = "calling"
    /\ \E c \in Callers :
          /\ fetch(c, hooks[h].url, NetOptions(hooks[h].options), FALSE)
          /\ LET act == [hook |-> h, data |-> hooks[h].data, trigger |-> hooks[h].trigger]
                 hk == [hooks[h] EXCEPT !.pc = "ready", !.trigger = ""]
             IN  IF callers'[c].pc = "done"
                 THEN /\ hooks' = [hooks EXCEPT ![h] = Settle(hk, act, callers'[c], now)]
                      /\ acts' = acts
                 ELSE /\ hooks' = [hooks EXCEPT ![h] = [hk EXCEPT !.ref.caller = c]]
                      /\ acts' = [acts EXCEPT ![c] = act]

\* the fetch call at the head of the microtask queue returns or throws, and the
\* continuation of the fetchData call that made it follows
HookResume ==
    /\ Calm
    /\ Resume
    /\ LET c == Head(microtasks)
           h == acts[c].hook
           hk == IF hooks[h].ref.caller = c
                 THEN [hooks[h] EXCEPT !.ref.caller = 0]
                 ELSE hooks[h]
       IN  /\ hooks' = [hooks EXCEPT ![h] = Settle(hk, acts[c], callers'[c], now)]
           /\ acts' = [acts EXCEPT ![c] = NoAct]

\* lines 92-98: the first render is committed and the effect calls fetchData()
Mount(h) ==
    /\ Calm /\ microtasks = <<>>
    /\ hooks[h].pc = "init"
    /\ IF CanFetch(hooks[h], FALSE)
       THEN fetchData(h, hooks[h], "mount")
       ELSE /\ hooks' = [hooks EXCEPT ![h].pc = "ready"]
            /\ UNCHANGED <<acts, nvars>>

\* an event handler that either calls fetchData or does nothing
Handle(h, go, force, kind) ==
    LET hk == hooks[h]
        event == [kind |-> kind,
                  stale |-> /\ hk.source = "fetched" /\ ~hk.loading
                            /\ now - hk.lastFetch > hk.options.staleTime,
                  hadError |-> hk.error # NoError,
                  started |-> go /\ CanFetch(hk, force)]
    IN  IF go /\ CanFetch(hk, force)
        THEN fetchData(h, [hk EXCEPT !.event = event], kind)
        ELSE /\ hooks' = [hooks EXCEPT ![h].event = event]
             /\ UNCHANGED <<acts, nvars>>

\* lines 104-109: the window gets the focus
Focus(h) ==
    /\ Calm /\ microtasks = <<>>
    /\ hooks[h].pc = "ready"
    /\ hooks[h].options.refetchOnFocus
    /\ calls < MaxCalls
    /\ Handle(h, now - hooks[h].lastFetch > hooks[h].options.staleTime, FALSE, "focus")

\* lines 119-123: the browser is online again
Online(h) ==
    /\ Calm /\ microtasks = <<>>
    /\ hooks[h].pc = "ready"
    /\ hooks[h].options.refetchOnReconnect
    /\ calls < MaxCalls
    /\ Handle(h, hooks[h].error # NoError, TRUE, "online")

\* lines 88-90: the consumer calls refetch()
refetch(h) ==
    /\ Calm /\ microtasks = <<>>
    /\ hooks[h].pc = "ready"
    /\ CanFetch(hooks[h], TRUE)
    /\ fetchData(h, [hooks[h] EXCEPT !.event = NoEvent], "refetch")

\* lines 130-136: the component unmounts
Unmount(h) ==
    /\ Calm /\ microtasks = <<>>
    /\ hooks[h].pc = "ready"
    /\ IF hooks[h].ref.caller # 0 /\ ~callers[hooks[h].ref.caller].aborted
       THEN Abort(hooks[h].ref.caller)
       ELSE UNCHANGED nvars
    /\ hooks' = [hooks EXCEPT ![h].pc = "unmounted",
                              ![h].ref.aborted = hooks[h].ref.set]
    /\ UNCHANGED acts

\* the consumer renders the hook with another url: fetchData is made anew (line 86),
\* the effect of lines 93-98 runs again and finds isInitialMount.current false
UrlChange(h, url) ==
    /\ Calm /\ microtasks = <<>>
    /\ hooks[h].pc = "ready"
    /\ url # hooks[h].url
    /\ hooks' = [hooks EXCEPT ![h].url = url]
    /\ UNCHANGED <<acts, nvars>>

\* time passes for the page
HookTick(d) ==
    /\ microtasks = <<>>
    /\ now + d <= PageLoad + MaxTicks * cleanupInterval
    /\ now < nextSweep
    /\ now' = now + d
    /\ UNCHANGED <<nextSweep, cache, pendingRequests, metrics, reqs, callers, microtasks,
                   calls>>

HookNext ==
    \/ \E h \in Hooks : Mount(h)
    \/ \E h \in Hooks :
          /\ BusyKeys(hooks[h].url, NetOptions(hooks[h].options)) <= MaxBusyKeys
          /\ fetchDataCall(h)
    \/ HookResume
    \/ \E h \in Hooks : Focus(h)
    \/ \E h \in Hooks : Online(h)
    \/ \E h \in Hooks : refetch(h)
    \/ \E h \in Hooks : Unmount(h)
    \/ \E h \in Hooks, url \in HookUrls : UrlChange(h, url)
    \/ \E pid \in 1..Len(reqs), status \in Statuses :
          Calm /\ Respond(pid, status) /\ UNCHANGED hvars
    \/ \E pid \in 1..Len(reqs) : Calm /\ NetworkError(pid) /\ UNCHANGED hvars
    \/ \E pid \in 1..Len(reqs) : Calm /\ TimeoutFires(pid) /\ UNCHANGED hvars
    \/ \E pid \in 1..Len(reqs), body \in HookBodies, etag \in Etags :
          Calm /\ BodyRead(pid, body, etag) /\ UNCHANGED hvars
    \/ \E pid \in 1..Len(reqs) : Calm /\ DelayDone(pid) /\ UNCHANGED hvars
    \/ Calm /\ Sweep /\ UNCHANGED hvars
    \/ Calm /\ clearCache /\ UNCHANGED hvars
    \/ \E d \in TickSteps : Calm /\ HookTick(d) /\ UNCHANGED hvars

HookSpec == HookInit /\ [][HookNext]_vars

\* ------------------------------------------------- a hook whose url changes
\* The hook with requests for two keys in flight: a fetchData call for the url of a
\* later render can start its request while the request of an earlier call is
\* pending.  The hook passes retry 0, so no request waits a backoff delay.
RaceInit ==
    /\ now = PageLoad
    /\ nextSweep = PageLoad + cleanupInterval
    /\ cache = <<>>
    /\ metrics = [u \in AllUrls |-> <<>>]
    /\ pendingRequests = {}
    /\ reqs = <<>>
    /\ callers = [c \in Callers |-> IdleCaller]
    /\ microtasks = <<>>
    /\ calls = 0
    /\ \E fallbackData \in FallbackChoices :
          hooks = [h \in Hooks |-> NewHook(1, UseOptions(fallbackData, 0))]
    /\ acts = [c \in Callers |-> NoAct]

RaceNext ==
    \/ \E h \in Hooks : Mount(h)
    \/ \E h \in Hooks :
          /\ BusyKeys(hooks[h].url, NetOptions(hooks[h].options)) <= MaxDedupKeys
          /\ fetchDataCall(h)
    \/ HookResume
    \/ \E h \in Hooks : Focus(h)
    \/ \E h \in Hooks : Online(h)
    \/ \E h \in Hooks : refetch(h)
    \/ \E h \in Hooks : Unmount(h)
    \/ \E h \in Hooks, url \in HookUrls : UrlChange(h, url)
    \/ \E pid \in 1..Len(reqs), status \in Statuses :
          Calm /\ Respond(pid, status) /\ UNCHANGED hvars
    \/ \E pid \in 1..Len(reqs) : Calm /\ NetworkError(pid) /\ UNCHANGED hvars
    \/ \E pid \in 1..Len(reqs) : Calm /\ TimeoutFires(pid) /\ UNCHANGED hvars
    \/ \E pid \in 1..Len(reqs), body \in HookBodies, etag \in Etags :
          Calm /\ BodyRead(pid, body, etag) /\ UNCHANGED hvars
    \/ Calm /\ Sweep /\ UNCHANGED hvars
    \/ Calm /\ clearCache /\ UNCHANGED hvars
    \/ \E d \in TickSteps : Calm /\ HookTick(d) /\ UNCHANGED hvars

RaceSpec == RaceInit /\ [][RaceNext]_vars

\* ================================================================= claims
Pids == 1..Len(reqs)
InFlight(p) == reqs[p].phase \in {"fetching", "reading", "delaying"}

\* ---- C1
\* C1: for every request key, at most one executeRequest is in flight in every
\* reachable state, however many callers called fetch for the key meanwhile.
C1_OneRequestPerKey ==
    \A p, q \in Pids :
        InFlight(p) /\ InFlight(q) /\ reqs[p].key = reqs[q].key => p = q

\* a caller found the key in pendingRequests and awaits the request in flight
C1_Witness ==
    \E c \in Callers :
        /\ callers[c].pc = "attached"
        /\ InFlight(callers[c].pid)
        /\ reqs[callers[c].pid].owner # c

\* ---- C2
\* C2: every caller attached to a request in flight is handed the outcome the caller
\* that started it is handed: the same data on success, the same error on failure.
C2_SameOutcome ==
    \A c, d \in Callers :
        (/\ callers[c].pc = "done" /\ callers[c].role = "initiator"
         /\ callers[d].pc = "done" /\ callers[d].role = "attached"
         /\ callers[c].pid = callers[d].pid)
        => /\ callers[d].kind = callers[c].kind
           /\ callers[d].data = callers[c].data
           /\ callers[d].error = callers[c].error

\* ---- C3
Reads == {callers[c].read : c \in Callers}

C4_CacheBounded == Len(cache) <= maxCacheSize

\* setCache ran with the cache at capacity, and the cache is full
C4_Witness ==
    /\ Len(cache) = maxCacheSize
    /\ \E p \in Pids : reqs[p].phase = "fulfilled" /\ reqs[p].evict.size = maxCacheSize

Retryable(o) == o.kind = "network" \/ (o.kind = "http" /\ o.status >= 500)
AllRetryable(r) ==
    /\ Len(r.outcomes) >= 1
    /\ \A i \in 1..Len(r.outcomes) : Retryable(r.outcomes[i])

\* C6: a request that is not cancelled and whose physical attempts all fail with
\* HTTP 5xx or a network failure never makes more than retry + 1 attempts, and when
\* it ends it has failed after exactly retry + 1 attempts.
C6_ExactlyBudgetAttempts ==
    \A p \in Pids :
        AllRetryable(reqs[p]) /\ ~reqs[p].cancelled =>
            /\ reqs[p].physical <= Retry(reqs[p].options) + 1
            /\ reqs[p].phase # "fulfilled"
            /\ reqs[p].phase = "rejected" =>
                  /\ reqs[p].physical = Retry(reqs[p].options) + 1
                  /\ Len(reqs[p].outcomes) = Retry(reqs[p].options) + 1

\* a request with retry >= 1 failed after retry + 1 attempts that all failed retryably
C6_Witness ==
    \E p \in Pids :
        /\ reqs[p].phase = "rejected"
        /\ AllRetryable(reqs[p]) /\ ~reqs[p].cancelled
        /\ Retry(reqs[p].options) >= 1
        /\ reqs[p].physical = Retry(reqs[p].options) + 1

\* ---- C7
\* C7: when a physical attempt that is not the last of the budget runs into its
\* timeout, and the request is not cancelled, the request does not fail there: the
\* executor waits the backoff delay and makes a further attempt.
C7_TimeoutRetried ==
    \A p \in Pids :
        LET r == reqs[p]
            n == Len(r.outcomes)
        IN  (/\ n >= 1
             /\ r.outcomes[n].kind = "timeout"
             /\ n <= Retry(r.options)
             /\ ~r.cancelled)
            => r.phase # "rejected"

\* ---- C8
\* C8: a request whose first physical attempt gets HTTP 4xx fails after exactly one
\* physical attempt, without waiting any backoff delay, whatever retry is.
C8_ClientErrorNotRetried ==
    \A p \in Pids :
        LET r == reqs[p]
        IN  (/\ Len(r.outcomes) >= 1
             /\ r.outcomes[1].kind = "http"
             /\ r.outcomes[1].status >= 400 /\ r.outcomes[1].status <= 499)
            => /\ r.phase = "rejected"
               /\ r.physical = 1
               /\ Len(r.outcomes) = 1
               /\ r.delays = <<>>

\* a request with retry >= 1 got HTTP 404 on its first attempt
C8_Witness ==
    \E p \in Pids :
        /\ Len(reqs[p].outcomes) >= 1
        /\ reqs[p].outcomes[1] = Outcome("http", 404)
        /\ Retry(reqs[p].options) >= 1
        /\ reqs[p].phase = "rejected"

\* ---- C9
\* C9: when a physical attempt gets a successful response whose body is not valid
\* JSON, the request fails there: no backoff delay, no further physical attempt.
C9_ParseErrorNotRetried ==
    \A p \in Pids :
        \A i \in 1..Len(reqs[p].outcomes) :
            reqs[p].outcomes[i].kind = "parse" =>
                /\ reqs[p].phase = "rejected"
                /\ reqs[p].physical = i

\* ---- C10
IsAbortedError(e) == e = RequestAborted \/ e.name = "AbortError"

\* C10: a request whose caller's signal was aborted before its first physical
\* attempt had completed ends with an Aborted error, never in success and never
\* with another error.
C10_EarlyCancelAborts ==
    \A p \in Pids :
        reqs[p].abortedEarly /\ Settled(reqs[p]) =>
            reqs[p].phase = "rejected" /\ IsAbortedError(reqs[p].error)

\* ---- C11
\* a request ends in this step, rejected with the 'Request aborted' error of line 230
EndsCancelled(p) ==
    /\ reqs'[p].phase = "rejected"
    /\ reqs'[p].error = RequestAborted
    /\ (p > Len(reqs) \/ reqs[p].phase # "rejected")

\* C11: a request that ends because its signal was aborted appends nothing to the
\* metrics history of its URL: the history is the same after the step as before.
C11_CancelNotRecorded ==
    [][\A p \in 1..Len(reqs') :
          EndsCancelled(p) => metrics'[reqs'[p].url] = metrics[reqs'[p].url]]_vars

\* ---- C12
\* caller c makes its networkService.fetch call in this step
Fetches(c) ==
    /\ calls' = calls + 1
    /\ callers[c].pc \in {"idle", "done"}
    /\ callers'[c].pc # "idle"

Fulfils(p) == reqs[p].phase = "reading" /\ reqs'[p].phase = "fulfilled"

\* every physical attempt but the last failed with HTTP 5xx or a network failure,
\* and the last one succeeded
TransientThenOk(r) ==
    /\ Len(r.outcomes) >= 1
    /\ r.outcomes[Len(r.outcomes)].kind = "ok"
    /\ \A i \in 1..(Len(r.outcomes) - 1) : Retryable(r.outcomes[i])

\* C13: when the first j-1 physical attempts of a request fail with HTTP 5xx or a
\* network failure and attempt j succeeds, then j <= retry + 1, the request ends in
\* success, the cache holds its data under its key, and the metrics record it appends
\* to the history and hands to its caller has retryCount = j - 1.
C13_RetryCountOnSuccess ==
    [][/\ \A p \in Pids :
             Fulfils(p) /\ TransientThenOk(reqs'[p]) =>
                 LET r == reqs'[p]
                     j == Len(r.outcomes)
                     history == metrics'[r.url]
                 IN  /\ j <= Retry(r.options) + 1
                     /\ r.physical = j
                     /\ r.metrics.retryCount = j - 1
                     /\ Present(cache', r.key)
                     /\ EntryOf(cache', r.key).data = r.data
                     /\ Len(history) >= 1
                     /\ history[Len(history)] = r.metrics
       /\ \A c \in Callers :
             (/\ callers'[c].pc = "done"
              /\ callers'[c].role = "initiator"
              /\ TransientThenOk(reqs'[callers'[c].pid]))
             => /\ callers'[c].kind = "data"
                /\ callers'[c].data = reqs'[callers'[c].pid].data
                /\ callers'[c].metrics = reqs'[callers'[c].pid].metrics]_vars

\* a request with retry >= 1 succeeded on its second attempt and its caller holds a
\* metrics record with retryCount = 1
C13_Witness ==
    \E c \in Callers :
        /\ callers[c].pc = "done"
        /\ callers[c].role = "initiator"
        /\ LET r == reqs[callers[c].pid]
           IN  /\ r.phase = "fulfilled"
               /\ Len(r.outcomes) = 2
               /\ Retryable(r.outcomes[1])
               /\ r.metrics.retryCount = 1
        /\ callers[c].metrics.retryCount = 1

\* ---- C15
\* C15: when the caller that started a request aborts its signal while another
\* caller is attached to the request, the request is not ended early: if all its
\* physical attempts fail with HTTP 5xx or a network failure, it fails (and the
\* attached caller with it) only after retry + 1 attempts.
C15_InitiatorCancelHarmless ==
    \A p \in Pids :
        (/\ reqs[p].sharedAtCancel
         /\ reqs[p].phase = "rejected"
         /\ AllRetryable(reqs[p]))
        => reqs[p].physical = Retry(reqs[p].options) + 1

\* ---- C14
\* C14: a fetchData call made by refetch() is never answered from the cache: its
\* networkService.fetch call starts a request or attaches to the one in flight.
C14_RefetchBypassesCache ==
    \A h \in Hooks : hooks[h].last.trigger = "refetch" => hooks[h].last.role # "cache"

\* ---- C16
\* the fetch call of an activation of hook h returns data in this step
Delivers(h, c) ==
    /\ acts[c].hook = h \/ (hooks[h].pc = "calling" /\ Fetches(c))
    /\ callers[c].pc # "done"
    /\ callers'[c].pc = "done"
    /\ callers'[c].kind = "data"

\* C16: once the data of a hook is non-null no step makes it null, and the data
\* changes only in a step in which a fetch call of the hook returns, to the data
\* that call returns.
C16_DataKept ==
    [][\A h \in Hooks :
          /\ hooks[h].data # NoData => hooks'[h].data # NoData
          /\ (hooks[h].data # NoData /\ hooks'[h].data # hooks[h].data) =>
                \E c \in Callers : Delivers(h, c) /\ hooks'[h].data = callers'[c].data]_vars

\* ---- C17
\* C17: a focus event (refetchOnFocus set) or an online event (refetchOnReconnect
\* set) that finds the held data older than staleTime starts a fetchData request,
\* whether the hook holds an error or not.
C17_StaleRevalidated ==
    \A h \in Hooks :
        (/\ hooks[h].event.kind \in {"focus", "online"}
         /\ hooks[h].event.stale
         /\ hooks[h].options.enabled)
        => hooks[h].event.started

\* ---- C18
\* C18: when the last fetchData call of a mounted hook has ended with a failure of
\* its request, its signal not aborted, and the hook is not loading, the hook holds
\* an error.
C18_FailureSurfaced ==
    \A h \in Hooks :
        (/\ hooks[h].pc = "ready"
         /\ ~hooks[h].loading
         /\ hooks[h].last.kind = "error"
         /\ ~hooks[h].last.cancelled)
        => hooks[h].error # NoError

\* ---- C19
\* C19: while a fetch call made by a hook is pending, the signal the call was given
\* is aborted if the hook has been unmounted or has been given another url since.
C19_TeardownAborts ==
    \A c \in Callers :
        (/\ acts[c].hook # 0
         /\ callers[c].pc \in {"attached", "initiator"}
         /\ \/ hooks[acts[c].hook].pc = "unmounted"
            \/ hooks[acts[c].hook].url # callers[c].url)
        => callers[c].aborted

\* ---- C20
\* result.isFallback as a consumer reads it: undefined (falsy) when the result has
\* no such property
IsFallback(result) ==
    IF "isFallback" \in DOMAIN result THEN result.isFallback ELSE FALSE

\* C20: whenever the data a mounted hook returns is the fallbackData of its options
\* and not data a request delivered, the result it returns is marked as fallback.
C20_FallbackMarked ==
    \A h \in Hooks :
        hooks[h].pc = "ready" /\ hooks[h].source = "fallback" =>
            IsFallback(Result(hooks[h]))


\* ---- C21
\* C21: at no time are two physical requests to one url in flight, whatever options
\* the callers that fetch the url pass.
C21_OnePhysicalPerUrl ==
    \A p, q \in Pids :
        (/\ reqs[p].phase \in {"fetching", "reading"}
         /\ reqs[q].phase \in {"fetching", "reading"}
         /\ reqs[p].url = reqs[q].url) => p = q

\* ---- C22
\* C22: two fetch calls for one url whose options give the same effective timeout,
\* retry, retryDelay and ttl have the same request key.
C22_KeyOfEffectiveOptions ==
    \A c, d \in Callers :
        (/\ callers[c].pc # "idle" /\ callers[d].pc # "idle"
         /\ callers[c].url = callers[d].url
         /\ Effective(callers[c].options) = Effective(callers[d].options))
        => callers[c].key = callers[d].key

\* ---- C23
\* the delay before the k-th retry
Backoff(r, k) == RetryDelay(r.options) * 2 ^ (k - 1)

\* C23: in a request that is not cancelled and whose attempts all fail with HTTP 5xx
\* or a network failure, the wait that begins after the k-th failed attempt, k up to
\* retry, ends retryDelay * 2^(k-1) after that failure and not before, the next
\* attempt starts when it ends, and the request fails at its last attempt without a
\* further wait: retry waits for retry + 1 attempts.
C23_BackoffDelays ==
    [][\A p \in 1..Len(reqs) :
          LET r == reqs[p]
              s == reqs'[p]
          IN  AllRetryable(s) /\ ~s.cancelled =>
                 /\ (r.phase # "delaying" /\ s.phase = "delaying") =>
                       /\ Len(s.outcomes) <= Retry(s.options)
                       /\ s.delayDue = now' + Backoff(s, Len(s.outcomes))
                       /\ s.delays = [k \in 1..Len(s.outcomes) |-> Backoff(s, k)]
                 /\ (r.phase = "delaying" /\ s.phase # "delaying") =>
                       /\ now >= r.delayDue
                       /\ s.phase = "fetching"
                       /\ s.physical = r.physical + 1
                 /\ s.phase = "rejected" =>
                       /\ r.phase \in {"fetching", "rejected"}
                       /\ Len(s.outcomes) = Retry(s.options) + 1
                       /\ Len(s.delays) = Retry(s.options)]_vars

\* a request with retry 3 failed at its fourth attempt after waiting retryDelay,
\* 2 * retryDelay and 4 * retryDelay
C23_Witness ==
    \E p \in Pids :
        /\ reqs[p].phase = "rejected"
        /\ AllRetryable(reqs[p]) /\ ~reqs[p].cancelled
        /\ Retry(reqs[p].options) = 3
        /\ reqs[p].physical = 4
        /\ reqs[p].delays = <<15000, 30000, 60000>>

\* ---- C24
\* C24: pendingRequests holds an entry for a key exactly while a request for the key
\* is unresolved: after every step, every request not yet settled has its entry,
\* once the continuations queued by a settlement have run no entry is left for a
\* settled request, and a caller that fetch attaches to an entry is attached to a
\* request that is not settled.
C24_EntryWhileUnresolved ==
    [][/\ \A p \in 1..Len(reqs') :
             ~Settled(reqs'[p]) /\ reqs'[p] # Gone =>
                 \E e \in pendingRequests' : e.pid = p /\ e.key = reqs'[p].key
       /\ microtasks' = <<>> =>
             \A e \in pendingRequests' : ~Settled(reqs'[e.pid])
       /\ \A c \in Callers :
             callers[c].pc # "attached" /\ callers'[c].pc = "attached" =>
                 ~Settled(reqs'[callers'[c].pid])]_vars

\* ---- C25
\* C25: a physical attempt has its timeout timer pending for as long as it lasts,
\* while fetch() awaits the response and while the body is read, so that no attempt
\* outlasts its timeout.
C25_AttemptTimed ==
    \A p \in Pids :
        reqs[p].phase \in {"fetching", "reading"} => reqs[p].timeoutDue > 0

\* ---- C26
\* C26: once the signal of the caller that started a request is aborted, the request
\* starts no further physical attempt, and no time passes while it waits a backoff
\* delay that has not run out.
C26_CancelEndsLoop ==
    [][\A p \in 1..Len(reqs) :
          reqs[p].cancelled /\ ~Settled(reqs[p]) =>
              /\ reqs'[p].physical = reqs[p].physical
              /\ ~(/\ reqs[p].phase = "delaying"
                   /\ now < reqs[p].delayDue
                   /\ now' > now)]_vars

\* ---- C27
\* every fetch call made so far has returned or thrown
AllCompleted ==
    /\ microtasks = <<>>
    /\ \A c \in Callers : callers[c].pc \in {"idle", "done"}

\* C27: when every fetch call has completed, the history of the url the callers fetch
\* has grown by one entry per call, whether the call was served from the cache,
\* started the request or was attached to it.  (The history of url 2, which is not
\* fetched, keeps the length every history starts with.)
C27_OneEntryPerCall ==
    AllCompleted => Len(metrics[1]) = Len(metrics[2]) + calls

\* ---- C28
\* the step records an entry for url u: a request for u settles (lines 262, 292), or
\* a fetch of u is served from the cache (line 178)
Records(u) ==
    \/ \E p \in 1..Len(reqs') :
          /\ reqs'[p].url = u /\ Settled(reqs'[p])
          /\ p <= Len(reqs) => ~Settled(reqs[p])
    \/ /\ calls' > calls
       /\ \E c \in Callers :
             /\ callers'[c].pc = "done" /\ callers'[c].role = "cache"
             /\ callers'[c].url = u

\* C28: the history of a url never holds more than metricsCap entries; a recording
\* appends its entry as the newest, at the time of the recording, and when that makes
\* metricsCap + 1 entries the oldest one is dropped: the entries kept are the newest
\* metricsCap, in the order they were recorded in.
C28_HistoryCapped ==
    [][\A u \in AllUrls :
          LET old == metrics[u]
              new == metrics'[u]
              kept == Len(new) - 1
          IN  /\ Len(new) <= metricsCap
              /\ IF Records(u)
                 THEN /\ Len(new) = IF Len(old) < metricsCap THEN Len(old) + 1
                                    ELSE metricsCap
                      /\ new[Len(new)].timestamp = now'
                      /\ SubSeq(new, 1, kept) = SubSeq(old, Len(old) - kept + 1, Len(old))
                 ELSE new = old]_vars

\* more than metricsCap entries were recorded: the history holds metricsCap entries
\* and the entry recorded first is no longer its oldest
C28_Witness ==
    /\ Len(metrics[1]) = metricsCap
    /\ metrics[1][1].responseTime = 2
    /\ metrics[1][metricsCap].timestamp > 0

\* ---- C29
\* the fetch call c was made by a fetchData call of a mounted hook that has since been
\* superseded: a later fetchData call of the hook aborted its signal and replaced the
\* controller
Superseded(c) ==
    /\ acts[c].hook # 0
    /\ callers[c].aborted
    /\ hooks[acts[c].hook].pc # "unmounted"
    /\ hooks[acts[c].hook].ref.caller # c

\* the request of the latest fetchData call of hook h is pending
LatestPending(h) ==
    /\ hooks[h].ref.caller # 0
    /\ ~Settled(reqs[callers[hooks[h].ref.caller].pid])

\* C29: when the fetch call of a superseded fetchData call returns or throws while
\* the request of the latest fetchData call is pending, the continuation of the
\* superseded call leaves data, metrics, lastFetch and loading of the hook as they
\* are: loading stays true.
C29_SupersededIgnored ==
    [][\A c \in Callers :
          (/\ microtasks # <<>> /\ Head(microtasks) = c
           /\ Superseded(c)
           /\ LatestPending(acts[c].hook)
           /\ acts'[c] = NoAct) =>
              LET h == acts[c].hook
              IN  /\ hooks'[h].data = hooks[h].data
                  /\ hooks'[h].metrics = hooks[h].metrics
                  /\ hooks'[h].lastFetch = hooks[h].lastFetch
                  /\ hooks'[h].loading = hooks[h].loading
                  /\ hooks'[h].loading]_vars

\* ---- C30
\* the number of physical attempts of request r that failed
FailedAttempts(r) == Cardinality({i \in 1..Len(r.outcomes) : r.outcomes[i].kind # "ok"})

\* C30: the retryCount recorded for a settled request that made physical attempts is
\* the number of its attempts that failed: one less than the number of attempts made
\* when the request succeeded, the number of attempts made when it failed.
C30_RetryCountIsFailedAttempts ==
    \A p \in Pids :
        LET r == reqs[p]
        IN  Settled(r) /\ r.physical >= 1 =>
               /\ r.retryCount = FailedAttempts(r)
               /\ r.phase = "fulfilled" => r.metrics.retryCount = r.physical - 1
               /\ r.phase = "rejected" => r.retryCount = r.physical

====
